---- MODULE Spec2Model ----
(***************************************************************************)
(* Parallel histogram benchmark: the std::thread program                   *)
(* (src/src/hist_threads.cpp) and the OpenMP program (hist_openmp.cpp, the *)
(* second program carried in src/scripts/build.sh, lines 19-225).          *)
(*                                                                         *)
(* One run of a program is modelled from the parsed arguments to its exit. *)
(* The main thread and every worker are processes with their own program   *)
(* counter; every interleaving of the workers' steps is explored.  The     *)
(* bench script (src/scripts/run_bench.sh) runs the two programs one after *)
(* the other with the same --n/--min/--max/--seed: NextRun models the      *)
(* second run of such a batch, keeping the first run's result in prev.     *)
(* The variable written records, for every index of the dataset, the       *)
(* workers that have stored into it.                                       *)
(***************************************************************************)
EXTENDS Integers, Sequences, FiniteSets, TLC

\* ------------------------------------------------------------- bounds
MaxN == 4
MaxThreads == 3
MaxRep == 2
MaxVal == 1

\* ------------------------------------------------- program constants
DefaultThreads == 4
SeedThreadStride == 1337
SeedRepStride == 17

\* values given to --seed
Seeds == {0, 1}

\* values given to --rep: one repetition, and the largest number of them
Reps == {1, MaxRep}

\* team sizes the OpenMP runtime uses when --threads is absent or not
\* positive (OMP_NUM_THREADS, or the number of cores)
OmpTeams == {1, 2}

Backends == {"threads", "openmp"}
Variants == {"private", "atomic", "mutex"}
VariantArgs == Variants \cup {"bogus"}
MaxTeam == IF MaxThreads > DefaultThreads THEN MaxThreads ELSE DefaultThreads
Workers == 0 .. (MaxTeam - 1)
NoThread == -1

VARIABLES
  backend,   \* which program runs: "threads" | "openmp"
  argv,      \* the command line as parsed (lines 76-82), kept for the batch
  a,         \* struct Args
  bins,      \* const int bins
  T,         \* team size reported in the record
  nthreads,  \* OpenMP nthreads-var (team size of the next parallel region)
  pc,        \* position of the main thread
  r,         \* repetition index
  k,         \* main thread's spawn / join cursor (loop variable t of main)
  chunk,     \* const uint64_t chunk
  data,      \* vector<int> data
  locals,    \* private variant: locals[t] / hist_local of thread t
  hist,      \* hist_global / hist
  bin_mtx,   \* mutex variant: holder of each bin's lock, NoThread when free
  mtxLive,   \* mutex variant: the locks exist
  crit,      \* OpenMP: holder of the unnamed critical section
  wpc,       \* position of each worker
  wi,        \* loop variable i of each worker
  wend,      \* loop bound of each worker
  rng,       \* each worker's generator: seed and number of draws so far
  tmp,       \* mutex variant: value loaded by ++hist[idx]
  sum_hist,  \* uint64_t sum_hist
  out,       \* records written to stdout
  status,    \* exit status, -1 while running
  nalloc,    \* datasets allocated by this run
  nspawn,    \* workers started by this run
  log,       \* per repetition of this run: team size, dataset, histogram
  prev,      \* the batch's previous run: program, variant, --min, --max,
             \* its per-repetition results and its records
  written    \* for each index of data: the workers that stored into it

vars == << backend, argv, a, bins, T, nthreads, pc, r, k, chunk, data, locals,
           hist, bin_mtx, mtxLive, crit, wpc, wi, wend, rng, tmp, sum_hist,
           out, status, nalloc, nspawn, log, prev, written >>

\* ------------------------------------------------------ pure helpers
Min(x, y) == IF x < y THEN x ELSE y

RECURSIVE SumTo(_, _)
\* std::accumulate over h[0 .. n-1]
SumTo(h, n) == IF n = 0 THEN 0 ELSE h[n - 1] + SumTo(h, n - 1)

Zeros(n) == [i \in 0 .. (n - 1) |-> 0]

\* a slip: the chunk rounded down
Chunk_Floor(N, nT) == N \div nT

\* chunk = ceil(N / T)
Chunk(N, nT) == (N + nT - 1) \div nT

\* a slip: a range that starts on the last index of the one before it
Start_Overlap(t, c) == IF t * c > 0 THEN t * c - 1 ELSE 0

\* std::thread worker t: [t*chunk, min(N, (t+1)*chunk))
Start(t, c) == t * c
\* a slip: the end taken as the last index instead of one past it
End_Inclusive(t, c, N) == Min(N - 1, (t + 1) * c)

End(t, c, N) == Min(N, (t + 1) * c)

\* OpenMP schedule(static) without a chunk size, as g++ -fopenmp expands it:
\* q = N / nthreads, the first N % nthreads threads take one more iteration.
StaticStart(tid, nT, N) ==
  LET q == N \div nT
      tt == N % nT
  IN IF tid < tt THEN (q + 1) * tid ELSE q * tid + tt
StaticEnd(tid, nT, N) ==
  LET q == N \div nT
      tt == N % nT
  IN StaticStart(tid, nT, N) + (IF tid < tt THEN q + 1 ELSE q)

\* seed of worker t in repetition rr
SeedOf(seed, t, rr) == seed + t * SeedThreadStride + rr * SeedRepStride

\* Stand-in for the output stream of mt19937_64: the j-th 64-bit word of the
\* generator seeded s (a fixed function of s and j).
Mt(s, j) == (s + 1) * (j + 3) + (s \div 2) + j * j

\* a slip: the lower bound is not added to the drawn offset
Draw_NoOffset(s, j, lo, hi) == Mt(s, j) % (hi - lo + 1)

\* uniform_int_distribution<int>(lo, hi) applied to the j-th state of the
\* generator seeded s: a value of [lo, hi] fixed by (s, j, lo, hi).
Draw(s, j, lo, hi) == lo + (Mt(s, j) % (hi - lo + 1))


\* a slip: a swap written as two assignments, without a temporary
SwapRange_NoTemp(args) ==
  IF args.maxv < args.minv
    THEN [args EXCEPT !.minv = args.maxv, !.maxv = args.maxv]
    ELSE args

\* if (a.maxv < a.minv) swap(a.maxv, a.minv)
SwapRange(args) ==
  IF args.maxv < args.minv
    THEN [args EXCEPT !.minv = args.maxv, !.maxv = args.minv]
    ELSE args

\* a slip: a non-positive count coerced to one thread
CoerceThreads_One(n) == IF n <= 0 THEN 1 ELSE n

\* if (a.threads <= 0) a.threads = 4
CoerceThreads(n) == IF n <= 0 THEN DefaultThreads ELSE n

Supported(v) == v = "private" \/ v = "atomic" \/ v = "mutex"

\* the index range of worker t in the running program
RangeStart(t) ==
  IF backend = "threads" THEN Start(t, chunk) ELSE StaticStart(t, nthreads, a.N)
RangeEnd(t) ==
  IF backend = "threads" THEN End(t, chunk, a.N) ELSE StaticEnd(t, nthreads, a.N)

\* workers of the current team
Team == 0 .. ((IF backend = "threads" THEN T ELSE nthreads) - 1)

Idle == [t \in Workers |-> "idle"]
NoPrev == [backend |-> "none", variant |-> "none", minv |-> 0, maxv |-> 0,
           log |-> << >>, out |-> << >>]

\* a slip: the threads field shows the count asked for, not the count used
Record_Requested ==
  [backend |-> backend, variant |-> a.variant, threads |-> argv.threads,
   N |-> a.N, bins |-> bins, min |-> a.minv, max |-> a.maxv, seed |-> a.seed,
   sum_hist |-> sum_hist]

\* the line written to stdout (the three durations are left out)
Record ==
  [backend |-> backend, variant |-> a.variant, threads |-> T, N |-> a.N,
   bins |-> bins, min |-> a.minv, max |-> a.maxv, seed |-> a.seed,
   sum_hist |-> sum_hist]

\* ---------------------------------------------------------------- Init
Fresh ==
  /\ bins = 0
  /\ T = 0
  /\ nthreads = 0
  /\ pc = "setup"
  /\ r = 0
  /\ k = 0
  /\ chunk = 0
  /\ data = Zeros(0)
  /\ locals = Zeros(0)
  /\ hist = Zeros(0)
  /\ bin_mtx = Zeros(0)
  /\ mtxLive = FALSE
  /\ crit = NoThread
  /\ wpc = Idle
  /\ wi = [t \in Workers |-> 0]
  /\ wend = [t \in Workers |-> 0]
  /\ rng = [t \in Workers |-> [s |-> 0, j |-> 0]]
  /\ tmp = [t \in Workers |-> 0]
  /\ sum_hist = 0
  /\ out = << >>
  /\ status = -1
  /\ nalloc = 0
  /\ nspawn = 0
  /\ log = << >>
  /\ written = Zeros(0)

\* the state of a program at its start, for the batch's next run
FreshNext ==
  /\ bins' = 0
  /\ T' = 0
  /\ nthreads' = 0
  /\ pc' = "setup"
  /\ r' = 0
  /\ k' = 0
  /\ chunk' = 0
  /\ data' = Zeros(0)
  /\ locals' = Zeros(0)
  /\ hist' = Zeros(0)
  /\ bin_mtx' = Zeros(0)
  /\ mtxLive' = FALSE
  /\ crit' = NoThread
  /\ wpc' = Idle
  /\ wi' = [t \in Workers |-> 0]
  /\ wend' = [t \in Workers |-> 0]
  /\ rng' = [t \in Workers |-> [s |-> 0, j |-> 0]]
  /\ tmp' = [t \in Workers |-> 0]
  /\ sum_hist' = 0
  /\ out' = << >>
  /\ status' = -1
  /\ nalloc' = 0
  /\ nspawn' = 0
  /\ log' = << >>
  /\ written' = Zeros(0)

Init ==
  /\ backend \in Backends
  /\ argv \in [N : 0 .. MaxN, minv : 0 .. MaxVal, maxv : 0 .. MaxVal,
               seed : Seeds, rep : Reps, variant : VariantArgs,
               threads : 0 .. MaxThreads]
  /\ a = argv
  /\ prev = NoPrev
  /\ Fresh

\* --------------------------------------------------------- main thread
\* hist_threads.cpp: range swap, bins, thread count
SetupThreads ==
  /\ pc = "setup" /\ backend = "threads"
  /\ LET n == SwapRange(a)
     IN /\ a' = [n EXCEPT !.threads = CoerceThreads(n.threads)]
        /\ bins' = n.maxv - n.minv + 1
        /\ T' = CoerceThreads(n.threads)
  /\ pc' = "check"
  /\ UNCHANGED << backend, argv, nthreads, r, k, chunk, data, locals, hist,
                  bin_mtx, mtxLive, crit, wpc, wi, wend, rng, tmp, sum_hist,
                  out, status, nalloc, nspawn, log, prev,
                  written >>

\* hist_openmp.cpp: range swap, bins, omp_set_num_threads when --threads > 0;
\* otherwise the team size is the runtime's default (OMP_NUM_THREADS, cores)
SetupOpenMP ==
  /\ pc = "setup" /\ backend = "openmp"
  /\ LET n == SwapRange(a)
     IN /\ a' = n
        /\ bins' = n.maxv - n.minv + 1
  /\ IF a.threads > 0
       THEN nthreads' = a.threads
       ELSE nthreads' \in OmpTeams
  /\ pc' = "loop"
  /\ UNCHANGED << backend, argv, T, r, k, chunk, data, locals, hist,
                  bin_mtx, mtxLive, crit, wpc, wi, wend, rng, tmp, sum_hist,
                  out, status, nalloc, nspawn, log, prev,
                  written >>

\* hist_threads.cpp: the variant is checked before the repetition loop
VariantCheck ==
  /\ pc = "check"
  /\ IF Supported(a.variant)
       THEN pc' = "loop" /\ status' = status
       ELSE pc' = "exit" /\ status' = 2
  /\ UNCHANGED << backend, argv, a, bins, T, nthreads, r, k, chunk, data,
                  locals, hist, bin_mtx, mtxLive, crit, wpc, wi, wend, rng,
                  tmp, sum_hist, out, nalloc, nspawn, log, prev,
                  written >>

\* a slip: one repetition too many
Repeat_Inclusive(rr, n) == rr <= n

\* the test of for (int r = 0; r < a.rep; ++r)
Repeat(rr, n) == rr < n

\* for (r < a.rep): vector<int> data(a.N); chunk (threads) / int T = 1 (openmp)
RepBegin ==
  /\ pc = "loop" /\ Repeat(r, a.rep)
  /\ data' = Zeros(a.N)
  /\ written' = [i \in 0 .. (a.N - 1) |-> << >>]
  /\ nalloc' = nalloc + 1
  /\ k' = 0
  /\ IF backend = "threads"
       THEN /\ chunk' = Chunk(a.N, T)
            /\ T' = T
            /\ pc' = "gen_spawn"
       ELSE /\ chunk' = chunk
            /\ T' = 1
            /\ pc' = "gen_fork"
  /\ UNCHANGED << backend, argv, a, bins, nthreads, r, locals, hist, bin_mtx,
                  mtxLive, crit, wpc, wi, wend, rng, tmp, sum_hist, out,
                  status, nspawn, log, prev >>

\* the repetition loop ends: return 0
Finish ==
  /\ pc = "loop" /\ ~Repeat(r, a.rep)
  /\ pc' = "exit"
  /\ status' = 0
  /\ UNCHANGED << backend, argv, a, bins, T, nthreads, r, k, chunk, data,
                  locals, hist, bin_mtx, mtxLive, crit, wpc, wi, wend, rng,
                  tmp, sum_hist, out, nalloc, nspawn, log, prev,
                  written >>

\* a slip: the critical section that merges the local counts is left out
LoopDone_NoMerge == "done"

\* where a counting worker goes when its loop ends: the OpenMP private
\* variant waits at the loop's implicit barrier before its critical section
LoopDone ==
  IF backend = "openmp" /\ a.variant = "private" THEN "barrier" ELSE "done"

\* a slip: the body runs before the first test of the loop
GenEntry_DoWhile(t) == "gen_loop"

\* a generation worker's first lines: its range, its generator, and the
\* first test of its loop
GenEntry(t) == IF RangeStart(t) < RangeEnd(t) THEN "gen_loop" ELSE "done"
GenRng(t) == [s |-> SeedOf(a.seed, t, r), j |-> 0]

\* a slip: the body runs before the first test of the loop
CountEntry_DoWhile(t) == "cnt_loop"

\* a counting worker's first lines: its range and the first test of its loop
CountEntry(t) == IF RangeStart(t) < RangeEnd(t) THEN "cnt_loop" ELSE LoopDone

\* ths.emplace_back(...) of the generation loop, one thread per step; the
\* new thread's first lines touch only its own variables and are part of
\* the step
SpawnGen ==
  /\ pc = "gen_spawn" /\ k < T
  /\ wpc' = [wpc EXCEPT ![k] = GenEntry(k)]
  /\ wi' = [wi EXCEPT ![k] = RangeStart(k)]
  /\ wend' = [wend EXCEPT ![k] = RangeEnd(k)]
  /\ rng' = [rng EXCEPT ![k] = GenRng(k)]
  /\ nspawn' = nspawn + 1
  /\ IF k + 1 = T
       THEN pc' = "gen_join" /\ k' = 0
       ELSE pc' = pc /\ k' = k + 1
  /\ UNCHANGED << backend, argv, a, bins, T, nthreads, r, chunk, data, locals,
                  hist, bin_mtx, mtxLive, crit, tmp, sum_hist, out, status,
                  nalloc, log, prev,
                  written >>

\* a slip: the main thread goes on without waiting for the worker
Terminated_NoWait(t) == TRUE

\* what join() and the barrier that ends a parallel region wait for: worker
\* t has run to its end
Terminated(t) == wpc[t] = "done"

\* for (auto& th : ths) th.join(), one join per step, in spawn order
JoinGen ==
  /\ pc = "gen_join" /\ k < T
  /\ Terminated(k)
  /\ wpc' = [wpc EXCEPT ![k] = "idle"]
  /\ IF k + 1 = T
       THEN pc' = "dispatch" /\ k' = 0
       ELSE pc' = pc /\ k' = k + 1
  /\ UNCHANGED << backend, argv, a, bins, T, nthreads, r, chunk, data, locals,
                  hist, bin_mtx, mtxLive, crit, wi, wend, rng, tmp, sum_hist,
                  out, status, nalloc, nspawn, log, prev,
                  written >>

\* #pragma omp parallel of the generation stage: the team starts, and the
\* single construct stores the team size in T
ForkGen ==
  /\ pc = "gen_fork"
  /\ T' = nthreads
  /\ wpc' = [t \in Workers |-> IF t < nthreads THEN GenEntry(t) ELSE "idle"]
  /\ wi' = [t \in Workers |-> IF t < nthreads THEN RangeStart(t) ELSE wi[t]]
  /\ wend' = [t \in Workers |-> IF t < nthreads THEN RangeEnd(t) ELSE wend[t]]
  /\ rng' = [t \in Workers |-> IF t < nthreads THEN GenRng(t) ELSE rng[t]]
  /\ nspawn' = nspawn + nthreads
  /\ pc' = "gen_barrier"
  /\ UNCHANGED << backend, argv, a, bins, nthreads, r, k, chunk, data, locals,
                  hist, bin_mtx, mtxLive, crit, tmp, sum_hist, out, status,
                  nalloc, log, prev,
                  written >>

\* the implicit barrier that ends the generation region
BarrierGen ==
  /\ pc = "gen_barrier"
  /\ \A t \in Team : Terminated(t)
  /\ wpc' = Idle
  /\ pc' = "dispatch"
  /\ UNCHANGED << backend, argv, a, bins, T, nthreads, r, k, chunk, data,
                  locals, hist, bin_mtx, mtxLive, crit, wi, wend, rng, tmp,
                  sum_hist, out, status, nalloc, nspawn, log, prev,
                  written >>

\* a slip: one lock fewer than bins
Locks_OneShort(v, nb) ==
  IF v = "mutex" THEN [b \in 0 .. (nb - 2) |-> NoThread] ELSE Zeros(0)

\* vector<mutex> bin_mtx(bins) / vector<omp_lock_t> locks(bins) with
\* omp_init_lock on each: one free lock per bin, in the mutex variant only
Locks(v, nb) ==
  IF v = "mutex" THEN [b \in 0 .. (nb - 1) |-> NoThread] ELSE Zeros(0)

\* start of the histogram stage of hist_threads.cpp: the variant's arrays
DispatchThreads ==
  /\ pc = "dispatch" /\ backend = "threads"
  /\ sum_hist' = 0
  /\ locals' = IF a.variant = "private"
                 THEN [t \in 0 .. (T - 1) |-> Zeros(bins)] ELSE Zeros(0)
  /\ hist' = IF a.variant = "private" THEN Zeros(0) ELSE Zeros(bins)
  /\ bin_mtx' = Locks(a.variant, bins)
  /\ mtxLive' = (a.variant = "mutex")
  /\ pc' = "cnt_spawn"
  /\ k' = 0
  /\ UNCHANGED << backend, argv, a, bins, T, nthreads, r, chunk, data, crit,
                  wpc, wi, wend, rng, tmp, out, status, nalloc, nspawn, log,
                  prev,
                  written >>

\* start of the histogram stage of hist_openmp.cpp: the variant's arrays and
\* locks, or the unsupported-variant branch (return 2)
DispatchOpenMP ==
  /\ pc = "dispatch" /\ backend = "openmp"
  /\ sum_hist' = 0
  /\ IF Supported(a.variant)
       THEN /\ hist' = Zeros(bins)
            /\ bin_mtx' = Locks(a.variant, bins)
            /\ mtxLive' = (a.variant = "mutex")
            /\ pc' = "cnt_fork"
            /\ status' = status
       ELSE /\ pc' = "exit"
            /\ status' = 2
            /\ UNCHANGED << hist, bin_mtx, mtxLive >>
  /\ UNCHANGED << backend, argv, a, bins, T, nthreads, r, k, chunk, data,
                  locals, crit, wpc, wi, wend, rng, tmp, out, nalloc, nspawn,
                  log, prev,
                  written >>

\* ths.emplace_back(...) of the counting loop, one thread per step
SpawnCount ==
  /\ pc = "cnt_spawn" /\ k < T
  /\ wpc' = [wpc EXCEPT ![k] = CountEntry(k)]
  /\ wi' = [wi EXCEPT ![k] = RangeStart(k)]
  /\ wend' = [wend EXCEPT ![k] = RangeEnd(k)]
  /\ nspawn' = nspawn + 1
  /\ IF k + 1 = T
       THEN pc' = "cnt_join" /\ k' = 0
       ELSE pc' = pc /\ k' = k + 1
  /\ UNCHANGED << backend, argv, a, bins, T, nthreads, r, chunk, data, locals,
                  hist, bin_mtx, mtxLive, crit, rng, tmp, sum_hist, out,
                  status, nalloc, log, prev,
                  written >>

\* for (auto& th : ths) th.join() of the counting stage
JoinCount ==
  /\ pc = "cnt_join" /\ k < T
  /\ Terminated(k)
  /\ wpc' = [wpc EXCEPT ![k] = "idle"]
  /\ IF k + 1 = T
       THEN pc' = "sum" /\ k' = 0
       ELSE pc' = pc /\ k' = k + 1
  /\ UNCHANGED << backend, argv, a, bins, T, nthreads, r, chunk, data, locals,
                  hist, bin_mtx, mtxLive, crit, wi, wend, rng, tmp, sum_hist,
                  out, status, nalloc, nspawn, log, prev,
                  written >>

\* #pragma omp parallel [for] of the counting stage; in the private variant
\* every thread of the team constructs its zeroed hist_local
ForkCount ==
  /\ pc = "cnt_fork"
  /\ wpc' = [t \in Workers |-> IF t < nthreads THEN CountEntry(t) ELSE "idle"]
  /\ wi' = [t \in Workers |-> IF t < nthreads THEN RangeStart(t) ELSE wi[t]]
  /\ wend' = [t \in Workers |-> IF t < nthreads THEN RangeEnd(t) ELSE wend[t]]
  /\ locals' = IF a.variant = "private"
                 THEN [t \in 0 .. (nthreads - 1) |-> Zeros(bins)] ELSE Zeros(0)
  /\ nspawn' = nspawn + nthreads
  /\ pc' = "cnt_barrier"
  /\ UNCHANGED << backend, argv, a, bins, T, nthreads, r, k, chunk, data,
                  hist, bin_mtx, mtxLive, crit, rng, tmp, sum_hist, out,
                  status, nalloc, log, prev,
                  written >>

\* the implicit barrier that ends the counting region
BarrierCount ==
  /\ pc = "cnt_barrier"
  /\ \A t \in Team : Terminated(t)
  /\ wpc' = Idle
  /\ pc' = "sum"
  /\ UNCHANGED << backend, argv, a, bins, T, nthreads, r, k, chunk, data,
                  locals, hist, bin_mtx, mtxLive, crit, wi, wend, rng, tmp,
                  sum_hist, out, status, nalloc, nspawn, log, prev,
                  written >>

\* a slip: the reduction starts at t = 1
MergeLocals_SkipFirst(loc, n, nb) ==
  [b \in 0 .. (nb - 1) |->
     IF n <= 1 THEN 0
     ELSE LET RECURSIVE S(_)
              S(m) == IF m <= 1 THEN 0 ELSE loc[m - 1][b] + S(m - 1)
          IN S(n)]

RECURSIVE MergeLocals(_, _, _)
\* hist_global[b] += locals[t][b] for t = 0 .. n-1
MergeLocals(loc, n, nb) ==
  IF n = 0 THEN Zeros(nb)
  ELSE LET h == MergeLocals(loc, n - 1, nb)
       IN [b \in 0 .. (nb - 1) |-> h[b] + loc[n - 1][b]]

\* after the join: the reduction of the private variant (std::thread), the
\* destruction of the locks, and sum_hist
Sum ==
  /\ pc = "sum"
  /\ LET h == IF backend = "threads" /\ a.variant = "private"
                THEN MergeLocals(locals, T, bins) ELSE hist
     IN /\ hist' = h
        /\ sum_hist' = SumTo(h, bins)
  /\ mtxLive' = FALSE
  /\ bin_mtx' = Zeros(0)
  /\ pc' = "emit"
  /\ UNCHANGED << backend, argv, a, bins, T, nthreads, r, k, chunk, data,
                  locals, crit, wpc, wi, wend, rng, tmp, out, status, nalloc,
                  nspawn, log, prev,
                  written >>

\* the record goes to stdout; the repetition's vectors go out of scope
Emit ==
  /\ pc = "emit"
  /\ out' = Append(out, Record)
  /\ log' = Append(log, [T |-> T, data |-> data, hist |-> hist])
  /\ r' = r + 1
  /\ data' = Zeros(0)
  /\ written' = Zeros(0)
  /\ hist' = Zeros(0)
  /\ locals' = Zeros(0)
  /\ pc' = "loop"
  /\ UNCHANGED << backend, argv, a, bins, T, nthreads, k, chunk, bin_mtx,
                  mtxLive, crit, wpc, wi, wend, rng, tmp, sum_hist, status,
                  nalloc, nspawn, prev >>

\* ------------------------------------------------------------- workers
\* one iteration of the generation loop: data[i] = dist(rng); ++i and the
\* loop test that follows it
GenStep(t) ==
  /\ wpc[t] = "gen_loop"
  /\ data' = [data EXCEPT ![wi[t]] = Draw(rng[t].s, rng[t].j, a.minv, a.maxv)]
  /\ written' = [written EXCEPT ![wi[t]] = Append(@, t)]
  /\ rng' = [rng EXCEPT ![t].j = @ + 1]
  /\ wi' = [wi EXCEPT ![t] = @ + 1]
  /\ wpc' = [wpc EXCEPT ![t] = IF wi[t] + 1 < wend[t] THEN @ ELSE "done"]
  /\ UNCHANGED << backend, argv, a, bins, T, nthreads, pc, r, k, chunk, locals,
                  hist, bin_mtx, mtxLive, crit, wend, tmp, sum_hist, out,
                  status, nalloc, nspawn, log, prev >>

\* ++i and the loop test that follows it
AfterIter(t) == IF wi[t] + 1 < wend[t] THEN "cnt_loop" ELSE LoopDone

\* const int idx = data[i] - a.minv
Idx(t) == data[wi[t]] - a.minv

\* a slip: the element is normalised in place, idx = (data[i] -= a.minv)
Read_InPlace(d, i) == [d EXCEPT ![i] = @ - a.minv]

\* the dataset after a counting worker has read data[i]: the operand of the
\* subtraction is only read
Read(d, i) == d

\* private: ++local[idx]
PrivateStep(t) ==
  /\ wpc[t] = "cnt_loop" /\ a.variant = "private"
  /\ locals' = [locals EXCEPT ![t][Idx(t)] = @ + 1]
  /\ data' = Read(data, wi[t])
  /\ wi' = [wi EXCEPT ![t] = @ + 1]
  /\ wpc' = [wpc EXCEPT ![t] = AfterIter(t)]
  /\ UNCHANGED << backend, argv, a, bins, T, nthreads, pc, r, k, chunk, hist,
                  bin_mtx, mtxLive, crit, wend, rng, tmp, sum_hist, out, status, nalloc, nspawn, log, prev,
                  written >>

\* a slip: the bin is stored, not added to
FetchAdd_Store(h, idx) == [h EXCEPT ![idx] = 1]

\* atomic: hist[idx].fetch_add(1) / #pragma omp atomic update
FetchAdd(h, idx) == [h EXCEPT ![idx] = @ + 1]

AtomicStep(t) ==
  /\ wpc[t] = "cnt_loop" /\ a.variant = "atomic"
  /\ hist' = FetchAdd(hist, Idx(t))
  /\ data' = Read(data, wi[t])
  /\ wi' = [wi EXCEPT ![t] = @ + 1]
  /\ wpc' = [wpc EXCEPT ![t] = AfterIter(t)]
  /\ UNCHANGED << backend, argv, a, bins, T, nthreads, pc, r, k, chunk,
                  locals, bin_mtx, mtxLive, crit, wend, rng, tmp, sum_hist, out, status, nalloc, nspawn, log, prev,
                  written >>

\* a slip: a lock that excludes nobody
CanLock_Always(m, idx) == TRUE

\* a lock can be taken when nobody holds it
CanLock(m, idx) == m[idx] = NoThread

\* mutex: lock_guard<mutex> lk(bin_mtx[idx]) / omp_set_lock(&locks[idx])
MutexLock(t) ==
  /\ wpc[t] = "cnt_loop" /\ a.variant = "mutex"
  /\ CanLock(bin_mtx, Idx(t))
  /\ bin_mtx' = [bin_mtx EXCEPT ![Idx(t)] = t]
  /\ data' = Read(data, wi[t])
  /\ wpc' = [wpc EXCEPT ![t] = "locked"]
  /\ UNCHANGED << backend, argv, a, bins, T, nthreads, pc, r, k, chunk,
                  locals, hist, mtxLive, crit, wi, wend, rng, tmp, sum_hist, out, status, nalloc, nspawn, log, prev,
                  written >>

\* mutex: ++hist[idx] reads the bin
MutexLoad(t) ==
  /\ wpc[t] = "locked"
  /\ tmp' = [tmp EXCEPT ![t] = hist[Idx(t)]]
  /\ wpc' = [wpc EXCEPT ![t] = "loaded"]
  /\ UNCHANGED << backend, argv, a, bins, T, nthreads, pc, r, k, chunk, data,
                  locals, hist, bin_mtx, mtxLive, crit, wi, wend, rng,
                  sum_hist, out, status, nalloc, nspawn, log, prev,
                  written >>

\* mutex: ++hist[idx] writes the bin
MutexStore(t) ==
  /\ wpc[t] = "loaded"
  /\ hist' = [hist EXCEPT ![Idx(t)] = tmp[t] + 1]
  /\ tmp' = [tmp EXCEPT ![t] = 0]
  /\ wpc' = [wpc EXCEPT ![t] = "stored"]
  /\ UNCHANGED << backend, argv, a, bins, T, nthreads, pc, r, k, chunk, data,
                  locals, bin_mtx, mtxLive, crit, wi, wend, rng, sum_hist,
                  out, status, nalloc, nspawn, log, prev,
                  written >>

\* a slip: the lock is not released at the end of the iteration
Release_Forgotten(m, idx) == m

\* std::mutex::unlock / omp_unset_lock: the lock is free again
Release(m, idx) == [m EXCEPT ![idx] = NoThread]

\* mutex: the lock_guard is destroyed / omp_unset_lock; next iteration
MutexUnlock(t) ==
  /\ wpc[t] = "stored"
  /\ bin_mtx' = Release(bin_mtx, Idx(t))
  /\ wi' = [wi EXCEPT ![t] = @ + 1]
  /\ wpc' = [wpc EXCEPT ![t] = AfterIter(t)]
  /\ UNCHANGED << backend, argv, a, bins, T, nthreads, pc, r, k, chunk, data,
                  locals, hist, mtxLive, crit, wend, rng, tmp, sum_hist, out,
                  status, nalloc, nspawn, log, prev,
                  written >>

\* every thread of the team has finished its share of the omp for loop
PastBarrier(t) == wpc[t] \in {"barrier", "crit", "merged", "done"}

\* OpenMP private: #pragma omp critical is entered, after the loop's barrier
CritEnter(t) ==
  /\ wpc[t] = "barrier"
  /\ \A u \in Team : PastBarrier(u)
  /\ crit = NoThread
  /\ crit' = t
  /\ wpc' = [wpc EXCEPT ![t] = "crit"]
  /\ UNCHANGED << backend, argv, a, bins, T, nthreads, pc, r, k, chunk, data,
                  locals, hist, bin_mtx, mtxLive, wi, wend, rng, tmp,
                  sum_hist, out, status, nalloc, nspawn, log, prev,
                  written >>

\* OpenMP private: for (b) hist_global[b] += hist_local[b]
CritMerge(t) ==
  /\ wpc[t] = "crit"
  /\ hist' = [b \in 0 .. (bins - 1) |-> hist[b] + locals[t][b]]
  /\ wpc' = [wpc EXCEPT ![t] = "merged"]
  /\ UNCHANGED << backend, argv, a, bins, T, nthreads, pc, r, k, chunk, data,
                  locals, bin_mtx, mtxLive, crit, wi, wend, rng, tmp,
                  sum_hist, out, status, nalloc, nspawn, log, prev,
                  written >>

\* OpenMP private: the critical section is left
CritExit(t) ==
  /\ wpc[t] = "merged"
  /\ crit' = NoThread
  /\ wpc' = [wpc EXCEPT ![t] = "done"]
  /\ UNCHANGED << backend, argv, a, bins, T, nthreads, pc, r, k, chunk, data,
                  locals, hist, bin_mtx, mtxLive, wi, wend, rng, tmp,
                  sum_hist, out, status, nalloc, nspawn, log, prev,
                  written >>

\* --------------------------------------------------------------- batch
\* the next program of the batch starts after the previous one has exited
\* with status 0, with the same --n and --seed and the same range; run_bench.sh
\* gives --min and --max in the same order, a user may also exchange them
NextRun ==
  /\ pc = "exit" /\ status = 0
  /\ prev = NoPrev
  /\ prev' = [backend |-> backend, variant |-> a.variant,
              minv |-> argv.minv, maxv |-> argv.maxv,
              log |-> log, out |-> out]
  /\ backend' \in Backends
  /\ \E v \in Variants, x \in BOOLEAN :
       argv' = [argv EXCEPT !.variant = v,
                            !.minv = IF x THEN argv.maxv ELSE argv.minv,
                            !.maxv = IF x THEN argv.minv ELSE argv.maxv]
  /\ a' = argv'
  /\ FreshNext

Run ==
  \/ SetupThreads
  \/ SetupOpenMP
  \/ VariantCheck
  \/ RepBegin
  \/ Finish
  \/ SpawnGen
  \/ JoinGen
  \/ ForkGen
  \/ BarrierGen
  \/ DispatchThreads
  \/ DispatchOpenMP
  \/ SpawnCount
  \/ JoinCount
  \/ ForkCount
  \/ BarrierCount
  \/ Sum
  \/ Emit
  \/ \E t \in Workers :
       \/ GenStep(t)
       \/ PrivateStep(t)
       \/ AtomicStep(t)
       \/ MutexLock(t)
       \/ MutexLoad(t)
       \/ MutexStore(t)
       \/ MutexUnlock(t)
       \/ CritEnter(t)
       \/ CritMerge(t)
       \/ CritExit(t)

Next == Run

Spec == Init /\ [][Next]_vars

\* a batch of two runs, as run_bench.sh starts them: supported variants,
\* MIN <= MAX, --rep 1, the same --n, --min, --max and --seed for both runs
BatchInit ==
  /\ Init
  /\ Supported(argv.variant)
  /\ argv.minv = 0 /\ argv.maxv = MaxVal
  /\ argv.rep = 1

BatchNext == Run \/ NextRun

SpecBatch == BatchInit /\ [][BatchNext]_vars

\* a run of a valid configuration under a scheduler that does not stop all
\* threads while one of them can take a step; the range is given in order
\* (an inverted one is exchanged at line 85 before anything depends on it)
FairInit == Init /\ Supported(argv.variant) /\ argv.minv <= argv.maxv

SpecFair == FairInit /\ [][Next]_vars /\ WF_vars(Next)

\* ------------------------------------------------------------ claims
\* number of indices of d[0 .. n-1] holding the value v
CountOf(d, n, v) == Cardinality({i \in 0 .. (n - 1) : d[i] = v})

\* C1 (conservation): in every repetition of every supported variant and of
\* both programs, sum_hist computed after the counting workers have finished,
\* and the sum of the bins it was computed from, equal N; so does the sum_hist
\* field of every record written.
C1_Conservation ==
  /\ pc = "emit" => (sum_hist = a.N /\ SumTo(hist, bins) = a.N)
  /\ \A i \in 1 .. Len(out) : out[i].sum_hist = out[i].N

\* C1 witness: a second repetition counted by several workers over two bins
C1_Witness ==
  /\ pc = "emit" /\ r = 1 /\ a.N >= 3 /\ T >= 2 /\ bins = 2
  /\ a.variant = "mutex" /\ hist[0] >= 1 /\ hist[1] >= 1

\* C2 (bin semantics): after the counting phase of any variant, bin b holds
\* the number of indices i in [0,N) with data[i] = min + b, for every bin b.
C2_BinSemantics ==
  /\ pc = "emit" =>
       \A b \in 0 .. (bins - 1) : hist[b] = CountOf(data, a.N, a.minv + b)
  /\ \A i \in 1 .. Len(log) : \A b \in 0 .. (bins - 1) :
       log[i].hist[b] = CountOf(log[i].data, a.N, a.minv + b)

\* C2 witness: the private variant of the std::thread program has counted a
\* dataset in which one value occurs at least twice and the other at least once
C2_Witness ==
  /\ pc = "emit" /\ backend = "threads" /\ a.variant = "private"
  /\ T >= 2 /\ bins = 2
  /\ \E b \in 0 .. 1 : hist[b] >= 2 /\ hist[1 - b] >= 1

\* the batch's previous run has a result for repetition i of this run
Paired(i) == prev.backend # "none" /\ i <= Len(prev.log)

\* the two runs of the batch were given the same --min and the same --max
SameRange == prev.minv = argv.minv /\ prev.maxv = argv.maxv

\* C3 (backend equivalence), as claimed: for the same seed, N, min, max,
\* thread count, repetition and variant, the OpenMP program and the
\* std::thread program produce the same histogram, bin by bin.
C3_BackendEquivalence ==
  \A i \in 1 .. Len(log) :
    ( /\ Paired(i)
      /\ SameRange
      /\ prev.backend # backend
      /\ prev.variant = a.variant
      /\ prev.log[i].T = log[i].T )
    => log[i].hist = prev.log[i].hist

\* C4 (variant equivalence): two runs of the batch that counted the same
\* dataset produce the same histogram, whatever their variants and whatever
\* the interleaving of their workers.
C4_VariantEquivalence ==
  \A i \in 1 .. Len(log) :
    (Paired(i) /\ prev.log[i].data = log[i].data)
    => log[i].hist = prev.log[i].hist

\* C4 witness: the same program has counted the same dataset of two values
\* with two different variants and several workers
C4_Witness ==
  /\ Len(log) = 1 /\ Paired(1)
  /\ prev.backend = backend /\ prev.variant # a.variant
  /\ prev.log[1].data = log[1].data
  /\ a.N >= 3 /\ log[1].T >= 2
  /\ log[1].hist[0] >= 1 /\ log[1].hist[1] >= 1

\* C5 (reproducibility): two runs of the same program with the same seed, N,
\* min, max, variant and thread count produce the same dataset and the same
\* histogram in every repetition, whatever the scheduling in either run.
C5_Reproducibility ==
  \A i \in 1 .. Len(log) :
    ( /\ Paired(i)
      /\ SameRange
      /\ prev.backend = backend
      /\ prev.variant = a.variant
      /\ prev.log[i].T = log[i].T )
    => /\ log[i].data = prev.log[i].data
       /\ log[i].hist = prev.log[i].hist

\* C5 witness: the mutex variant has run twice with several workers on a
\* dataset of two values
C5_Witness ==
  /\ Len(log) = 1 /\ Paired(1) /\ SameRange
  /\ prev.backend = backend /\ prev.variant = a.variant
  /\ a.variant = "mutex"
  /\ prev.log[1].T = log[1].T /\ log[1].T >= 2
  /\ a.N >= 3
  /\ log[1].hist[0] >= 1 /\ log[1].hist[1] >= 1

\* the run has done none of its work: no dataset allocated, no worker
\* started, no record written
NoWork == nalloc = 0 /\ nspawn = 0 /\ out = << >>

\* C6 (unsupported variant), as claimed: in both programs an unsupported
\* variant name ends the run with a non-zero status before any dataset is
\* allocated or any generation worker started, and without a record.
C6_UnsupportedVariantAbortsEarly ==
  ~Supported(argv.variant) =>
    /\ NoWork
    /\ pc = "exit" => status # 0

\* the state of a harness that has compared sum_hist with N; no statement
\* between the end of counting and the output of the record makes that
\* comparison, so no action of either program leads here
Validated == pc = "validated"

\* C7 (integrity validation), as claimed: a record is written only from a
\* state in which sum_hist has been compared with N.
C7_EmitOnlyAfterValidation == [][out' # out => Validated]_vars

\* C8 (non-positive thread count), as claimed: the run is rejected before
\* any work starts, ends with a non-zero status and writes no record.
C8_NonPositiveThreadsRejected ==
  argv.threads <= 0 =>
    /\ NoWork
    /\ pc = "exit" => status # 0

\* C8, amended: a non-positive thread count is not an error.  The
\* std::thread program runs with 4 workers, the OpenMP program with the
\* runtime's default team (at least one thread); with a supported variant
\* the run ends with status 0 after writing its rep records, whose threads
\* field is that team size.
C8_NonPositiveThreadsCoerced ==
  (argv.threads <= 0 /\ pc # "setup") =>
    /\ backend = "threads" => (T = DefaultThreads /\ a.threads = DefaultThreads)
    /\ backend = "openmp" => nthreads >= 1
    /\ \A i \in 1 .. Len(out) :
         out[i].threads = (IF backend = "threads" THEN DefaultThreads
                           ELSE nthreads)
    /\ (pc = "exit" /\ Supported(a.variant)) =>
         (status = 0 /\ Len(out) = a.rep)

\* C8 witness: the std::thread program was given --threads 0 and has ended
\* after writing its records
C8_Witness ==
  /\ argv.threads <= 0 /\ backend = "threads"
  /\ pc = "exit" /\ status = 0 /\ Len(out) = 2 /\ a.N >= 1

\* indices of [0,N) in the range of worker t for chunk size c
Owned(t, c, N) == {i \in 0 .. (N - 1) : Start(t, c) <= i /\ i < End(t, c, N)}

\* number of iterations of for (i = start; i < end; ++i) in worker t
Iters(t, c, N) ==
  IF Start(t, c) < End(t, c, N) THEN End(t, c, N) - Start(t, c) ELSE 0

InLoop(t) == wpc[t] \in {"gen_loop", "cnt_loop", "locked", "loaded", "stored"}

\* C9 (partition coverage): with chunk = ceil(N/T), the ranges of the T
\* workers the std::thread program has started are pairwise disjoint, ordered
\* by t, and their union is exactly [0,N); at any time a running worker's
\* index is in its range.
C9_PartitionCoverage ==
  (backend = "threads" /\ T >= 1) =>
    LET c == Chunk(a.N, T)
    IN /\ pc = "gen_join" =>
            /\ \A t, u \in 0 .. (T - 1) :
                 t < u => \A i \in Owned(t, c, a.N) :
                            \A j \in Owned(u, c, a.N) : i < j
            /\ UNION {Owned(t, c, a.N) : t \in 0 .. (T - 1)} = 0 .. (a.N - 1)
            /\ \A i \in 0 .. (a.N - 1) :
                 Cardinality({t \in 0 .. (T - 1) : i \in Owned(t, c, a.N)}) = 1
       /\ \A t \in 0 .. (T - 1) :
            InLoop(t) => (chunk = c /\ wi[t] \in Owned(t, c, a.N))

\* C9 witness: N = 4 split over 3 workers, the second worker at its last index
C9_Witness ==
  /\ backend = "threads" /\ T = 3 /\ a.N = 4
  /\ wpc[1] = "gen_loop" /\ wi[1] = 3

\* C10 (partition shape), as claimed: once the T workers have been started,
\* every worker but the last has received exactly chunk indices, with
\* t*chunk <= N.
C10_OnlyLastShort ==
  (backend = "threads" /\ pc = "gen_join") =>
    LET c == Chunk(a.N, T)
    IN \A t \in 0 .. (T - 2) :
         Iters(t, c, a.N) = c /\ Start(t, c) <= a.N

\* C10, amended: once the T workers have been started, with chunk =
\* ceil(N/T), a worker whose range ends at or before N has received exactly
\* chunk indices, at most one worker has received a shorter non-empty range,
\* and every worker after a short one, not only the last, has received an
\* empty range (its start t*chunk may exceed N).
C10_PartitionShape ==
  (backend = "threads" /\ pc = "gen_join") =>
    LET c == Chunk(a.N, T)
        n(t) == Iters(t, c, a.N)
        W == 0 .. (T - 1)
    IN /\ c * T >= a.N
       /\ a.N > 0 => (c - 1) * T < a.N
       /\ \A t \in W :
            n(t) = (IF (t + 1) * c <= a.N THEN c
                    ELSE IF t * c < a.N THEN a.N - t * c ELSE 0)
       /\ Cardinality({t \in W : 0 < n(t) /\ n(t) < c}) <= 1
       /\ \A t, u \in W : (t < u /\ n(t) < c) => n(u) = 0

\* C10 witness: N = 2 over 4 workers; the last two workers have ended with
\* empty ranges, the last one starting past N
C10_Witness ==
  /\ backend = "threads" /\ T = 4 /\ a.N = 2 /\ pc = "gen_join"
  /\ wpc[2] = "done" /\ wpc[3] = "done"
  /\ wi[2] >= wend[2] /\ wi[3] > a.N

\* number of workers of a phase in the running program
TeamSize == IF backend = "threads" THEN T ELSE nthreads

\* worker t has an empty index range (its start may lie beyond N)
EmptyRange(t) == RangeStart(t) >= RangeEnd(t)

\* C11 (degenerate partition): with more workers than elements, a worker
\* whose range is empty never enters a loop, draws no value, stores into no
\* index of the dataset and counts nothing; a running worker's index is below
\* N; the run is never stuck, sum_hist is N in every repetition, and the run
\* ends with status 0 after its rep records.
C11_DegeneratePartition ==
  (pc # "setup" /\ TeamSize > a.N) =>
    /\ \A t \in Team :
         EmptyRange(t) =>
           /\ ~InLoop(t)
           /\ rng[t].j = 0
           /\ \A i \in DOMAIN written :
                \A j \in 1 .. Len(written[i]) : written[i][j] # t
           /\ t \in DOMAIN locals => locals[t] = Zeros(bins)
    /\ \A t \in Team : InLoop(t) => (0 <= wi[t] /\ wi[t] < a.N)
    /\ pc = "emit" => sum_hist = a.N
    /\ \A i \in 1 .. Len(out) : out[i].sum_hist = a.N
    /\ pc # "exit" => ENABLED Next
    /\ (pc = "exit" /\ Supported(a.variant)) =>
         (status = 0 /\ Len(out) = a.rep)

\* C11 witness: N = 1 over 3 workers of the std::thread program, second
\* repetition counted; the last worker's range started beyond N
C11_Witness ==
  /\ backend = "threads" /\ T = 3 /\ a.N = 1 /\ chunk = 1
  /\ pc = "emit" /\ r = 1 /\ sum_hist = 1
  /\ wi[2] > a.N /\ wpc[1] = "idle" /\ wpc[2] = "idle"

\* C12 (empty input): with N = 0 the team has at least one worker, so the
\* chunk is computed (and is 0) without a division by zero; bins is still
\* max - min + 1; every worker's range is empty and no worker enters a loop;
\* the histogram has bins entries, all zero; sum_hist is 0 in every record,
\* and the run writes its rep records.
C12_EmptyInput ==
  (a.N = 0 /\ pc # "setup") =>
    /\ TeamSize >= 1
    /\ backend = "threads" => (chunk = 0 /\ Chunk(a.N, T) = 0)
    /\ bins = a.maxv - a.minv + 1 /\ bins >= 1
    /\ \A t \in Team : EmptyRange(t) /\ ~InLoop(t)
    /\ DOMAIN data = {}
    /\ \A b \in DOMAIN hist : hist[b] = 0
    /\ pc = "emit" => (hist = Zeros(bins) /\ sum_hist = 0)
    /\ \A i \in 1 .. Len(out) :
         out[i].sum_hist = 0 /\ out[i].N = 0 /\ out[i].bins = bins
    /\ (pc = "exit" /\ Supported(a.variant)) =>
         (status = 0 /\ Len(out) = a.rep)

\* C12 witness: the mutex variant of the std::thread program has run its
\* second repetition on an empty dataset with 3 workers and 2 bins
C12_Witness ==
  /\ backend = "threads" /\ a.N = 0 /\ T = 3 /\ bins = 2
  /\ a.variant = "mutex" /\ pc = "emit" /\ r = 1
  /\ hist = Zeros(2) /\ sum_hist = 0 /\ nspawn = 12

\* this run was given the previous run's --min and --max exchanged, the
\* larger one first
Exchanged ==
  prev.minv = argv.maxv /\ prev.maxv = argv.minv /\ argv.maxv < argv.minv

\* C13 (range normalization): after the arguments are read, min and max are
\* the smaller and the larger of --min and --max and bins is their distance
\* plus one; a run given (min = hi, max = lo) produces, in every repetition,
\* the same dataset, the same histogram and the same record (bins, min and
\* max fields included) as the run of the same program, variant and team
\* size given (min = lo, max = hi).
C13_RangeNormalization ==
  /\ pc # "setup" =>
       /\ a.minv = Min(argv.minv, argv.maxv)
       /\ a.maxv = argv.minv + argv.maxv - Min(argv.minv, argv.maxv)
       /\ bins = a.maxv - a.minv + 1
  /\ \A i \in 1 .. Len(log) :
       ( /\ Paired(i)
         /\ Exchanged
         /\ prev.backend = backend
         /\ prev.variant = a.variant
         /\ prev.log[i].T = log[i].T )
       => /\ log[i] = prev.log[i]
          /\ out[i] = prev.out[i]

\* C13 witness: the second run of the batch was given --min 1 --max 0 after a
\* run given --min 0 --max 1, and has counted both values with several workers
C13_Witness ==
  /\ Len(log) = 1 /\ Paired(1) /\ Exchanged
  /\ prev.backend = backend /\ prev.variant = a.variant
  /\ prev.log[1].T = log[1].T /\ log[1].T >= 2 /\ a.N >= 3
  /\ out[1].min = 0 /\ out[1].max = 1 /\ out[1].bins = 2
  /\ log[1].hist[0] >= 1 /\ log[1].hist[1] >= 1

\* positions of the main thread after the generation phase of a repetition
AfterGen ==
  {"dispatch", "cnt_spawn", "cnt_join", "cnt_fork", "cnt_barrier", "sum",
   "emit"}

\* positions of the main thread after the counting phase of a repetition
AfterCount == {"sum", "emit"}

\* positions of a worker inside the counting stage
Counting(t) ==
  wpc[t] \in {"cnt_loop", "locked", "loaded", "stored", "barrier", "crit",
              "merged"}

\* C14 (phase barriers): when the main thread is past the generation phase,
\* every generation worker has terminated and every index of the dataset has
\* been stored; when it is past the counting phase (sum_hist, record), every
\* counting worker has terminated after finishing its range; no worker is
\* in the counting stage while another is still generating.
C14_PhaseBarriers ==
  /\ pc \in AfterGen =>
       /\ \A t \in Workers : wpc[t] # "gen_loop"
       /\ \A i \in 0 .. (a.N - 1) : Len(written[i]) >= 1
  /\ pc = "dispatch" => \A t \in Workers : wpc[t] = "idle"
  /\ pc \in AfterCount =>
       /\ \A t \in Workers : wpc[t] = "idle"
       /\ \A t \in Team : wi[t] >= wend[t]
  /\ \A t, u \in Workers : ~(Counting(t) /\ wpc[u] = "gen_loop")

\* C14 witness: the second repetition's counting phase of 4 elements over 3
\* workers has just ended, all workers joined
C14_Witness ==
  /\ pc = "sum" /\ r = 1 /\ backend = "threads" /\ T = 3 /\ a.N = 4
  /\ a.variant = "atomic" /\ SumTo(hist, bins) = 4
  /\ \A t \in Workers : wpc[t] = "idle"

\* C15 (sequential repetitions): the records written, the repetitions
\* finished and the datasets allocated advance together: a dataset is
\* allocated and workers are started for one repetition only, the one whose
\* record is not yet written; between repetitions no worker exists and no
\* dataset is allocated; a run with a supported variant ends with status 0
\* after exactly rep records, one per repetition.
C15_SequentialRepetitions ==
  /\ Len(out) = r /\ Len(log) = r /\ r <= a.rep
  /\ nalloc <= Len(out) + 1
  /\ pc # "setup" => nspawn <= 2 * TeamSize * (Len(out) + 1)
  /\ pc = "loop" =>
       /\ nalloc = Len(out)
       /\ nspawn = 2 * TeamSize * Len(out)
       /\ DOMAIN data = {}
       /\ \A t \in Workers : wpc[t] = "idle"
  /\ pc \in AfterGen \cup {"gen_spawn", "gen_join", "gen_fork", "gen_barrier"} =>
       /\ nalloc = Len(out) + 1
       /\ nspawn >= 2 * TeamSize * Len(out)
  /\ (pc = "exit" /\ Supported(a.variant)) =>
       (status = 0 /\ Len(out) = a.rep /\ nalloc = a.rep)

\* C15 witness: a run of two repetitions with 3 workers has ended after two
\* records, two datasets and twelve workers
C15_Witness ==
  /\ pc = "exit" /\ status = 0 /\ a.rep = 2 /\ Len(out) = 2
  /\ nalloc = 2 /\ TeamSize = 3 /\ nspawn = 12 /\ a.N >= 2

\* positions of the main thread while counting workers may exist
CountPhase == {"cnt_spawn", "cnt_join", "cnt_fork", "cnt_barrier"}

\* worker t is at a lock operation of the mutex variant: about to acquire,
\* holding, or about to release
AtLock(t) == wpc[t] \in {"cnt_loop", "locked", "loaded", "stored"}

\* C16 (lock lifetime, mutex variant): from before the first counting worker
\* starts until after the last one has terminated there is one lock per bin;
\* a worker acquires, holds or releases a lock only while the locks exist,
\* and only the lock of an existing bin; the locks are all free when the
\* counting phase has ended, and exist in no other variant or phase.
C16_LockLifetime ==
  /\ (a.variant = "mutex" /\ pc \in CountPhase) =>
       (mtxLive /\ DOMAIN bin_mtx = 0 .. (bins - 1))
  /\ a.variant = "mutex" =>
       \A t \in Workers :
         AtLock(t) => (mtxLive /\ pc \in CountPhase /\ Idx(t) \in DOMAIN bin_mtx)
  /\ mtxLive => (a.variant = "mutex" /\ pc \in CountPhase \cup {"sum"})
  /\ ~mtxLive => DOMAIN bin_mtx = {}
  /\ (mtxLive /\ pc = "sum") =>
       /\ \A b \in DOMAIN bin_mtx : bin_mtx[b] = NoThread
       /\ \A t \in Workers : wpc[t] = "idle"

\* C16 witness: in the mutex variant of the OpenMP program, second
\* repetition, one worker holds the lock of a bin after another worker has
\* finished, with the two locks in existence
C16_Witness ==
  /\ backend = "openmp" /\ a.variant = "mutex" /\ pc = "cnt_barrier" /\ r = 1
  /\ mtxLive /\ DOMAIN bin_mtx = {0, 1}
  /\ wpc[0] = "done" /\ wpc[1] = "loaded" /\ bin_mtx[Idx(1)] = 1

\* C17 (team size, std::thread program): T is the requested count when that
\* is at least 1 and a value of at least 1 otherwise; in each phase the main
\* thread starts exactly T workers, numbered 0 .. T-1, and has joined all of
\* them when it goes on; the threads field of every record is T.
C17_TeamSize ==
  (backend = "threads" /\ pc # "setup") =>
    /\ T >= 1
    /\ argv.threads >= 1 => T = argv.threads
    /\ \A t \in Workers : t >= T => wpc[t] = "idle"
    /\ pc = "gen_spawn" =>
         (nspawn = 2 * T * r + k /\ \A t \in k .. (T - 1) : wpc[t] = "idle")
    /\ pc = "gen_join" =>
         /\ nspawn = 2 * T * r + T
         /\ \A t \in 0 .. (T - 1) : (wpc[t] = "idle") <=> (t < k)
    /\ pc = "dispatch" =>
         (nspawn = 2 * T * r + T /\ \A t \in Workers : wpc[t] = "idle")
    /\ pc = "cnt_spawn" =>
         (nspawn = 2 * T * r + T + k /\ \A t \in k .. (T - 1) : wpc[t] = "idle")
    /\ pc = "cnt_join" =>
         /\ nspawn = 2 * T * (r + 1)
         /\ \A t \in 0 .. (T - 1) : (wpc[t] = "idle") <=> (t < k)
    /\ pc \in AfterCount =>
         (nspawn = 2 * T * (r + 1) /\ \A t \in Workers : wpc[t] = "idle")
    /\ \A i \in 1 .. Len(out) : out[i].threads = T

\* C17 witness: the std::thread program given --threads 0 has written the
\* record of its first repetition and joined the 4 generation workers of the
\* second
C17_Witness ==
  /\ backend = "threads" /\ argv.threads = 0 /\ T = 4 /\ a.N >= 2
  /\ pc = "dispatch" /\ r = 1 /\ nspawn = 12
  /\ Len(out) = 1 /\ out[1].threads = 4
  /\ \A t \in Workers : wpc[t] = "idle"

\* worker t holds the lock of the bin of its current element
Holding(t) == wpc[t] \in {"locked", "loaded", "stored"}

\* C18 (mutual exclusion, mutex variant): two workers never hold the lock of
\* the same bin; a worker between lock and unlock is the recorded holder of
\* its bin's lock, and every held lock belongs to a worker that is inside the
\* increment of that very bin, so a worker holds one lock at a time and none
\* between elements; the value a holder has read from its bin is still the
\* bin's value when it writes it back.
C18_MutexExclusion ==
  a.variant = "mutex" =>
    /\ \A t, u \in Workers :
         (t # u /\ Holding(t) /\ Holding(u)) => Idx(t) # Idx(u)
    /\ \A t \in Workers : Holding(t) => bin_mtx[Idx(t)] = t
    /\ \A b \in DOMAIN bin_mtx :
         bin_mtx[b] # NoThread =>
           (Holding(bin_mtx[b]) /\ Idx(bin_mtx[b]) = b)
    /\ \A t \in Workers : wpc[t] = "cnt_loop" =>
         \A b \in DOMAIN bin_mtx : bin_mtx[b] # t
    /\ \A t \in Workers : wpc[t] = "loaded" => tmp[t] = hist[Idx(t)]

\* C18 witness: two workers hold the locks of the two bins while a third
\* waits for one of them
C18_Witness ==
  /\ a.variant = "mutex"
  /\ \E t, u, w \in Workers :
       /\ t # u /\ Holding(t) /\ Holding(u) /\ Idx(t) # Idx(u)
       /\ wpc[w] = "cnt_loop" /\ Idx(w) = Idx(t) /\ hist[Idx(t)] >= 1

\* the counting worker t of the current phase has been started
Started(t) == backend = "openmp" \/ pc = "cnt_join" \/ t < k

\* number of elements with value v among those worker t has counted so far
Counted(t, v) ==
  IF Started(t)
    THEN Cardinality({i \in RangeStart(t) .. (wi[t] - 1) : data[i] = v})
    ELSE 0

\* OpenMP: worker t is inside the critical section
Merging(t) == wpc[t] \in {"crit", "merged"}

\* OpenMP: worker t has added its local counts to the global histogram
Added(t) == wpc[t] \in {"merged", "done"}

\* bin b summed over the local arrays of the workers t < n that have added
\* theirs to the global histogram
RECURSIVE AddedSum(_, _)
AddedSum(n, b) ==
  IF n = 0 THEN 0
  ELSE (IF Added(n - 1) THEN locals[n - 1][b] ELSE 0) + AddedSum(n - 1, b)

\* bin b summed over the local arrays of all workers t < n
RECURSIVE LocalSum(_, _)
LocalSum(n, b) ==
  IF n = 0 THEN 0 ELSE locals[n - 1][b] + LocalSum(n - 1, b)

\* C19 (private variant): while the counting workers exist, the local array
\* of worker t holds exactly the counts of the elements t itself has
\* processed (nobody else writes it) and the global histogram holds nothing
\* but the local arrays already merged, each once; a worker's counts are
\* merged only when that worker, and in OpenMP the whole team, has finished
\* its range; at most one worker is merging at a time; after the merge the
\* global histogram is the sum of all T local arrays.
C19_PrivateDiscipline ==
  a.variant = "private" =>
    /\ pc \in {"cnt_spawn", "cnt_join", "cnt_barrier"} =>
         \A t \in Team : \A b \in 0 .. (bins - 1) :
           locals[t][b] = Counted(t, a.minv + b)
    /\ (backend = "threads" /\ pc \in CountPhase \cup {"sum"}) =>
         DOMAIN hist = {}
    /\ (backend = "openmp" /\ pc = "cnt_barrier") =>
         /\ \A b \in 0 .. (bins - 1) : hist[b] = AddedSum(nthreads, b)
         /\ Cardinality({t \in Team : Merging(t)}) <= 1
         /\ \A t \in Team :
              (Merging(t) \/ Added(t)) =>
                /\ \A u \in Team : wi[u] >= wend[u] /\ ~InLoop(u)
                /\ Merging(t) => crit = t
    /\ (pc = "emit" \/ (backend = "openmp" /\ pc = "sum")) =>
         /\ DOMAIN hist = 0 .. (bins - 1)
         /\ \A b \in 0 .. (bins - 1) : hist[b] = LocalSum(TeamSize, b)

\* C19 witness: OpenMP private variant with 3 workers: one has merged and
\* left, one is inside the critical section, one waits for it
C19_Witness ==
  /\ backend = "openmp" /\ a.variant = "private" /\ pc = "cnt_barrier"
  /\ nthreads = 3 /\ a.N >= 3 /\ bins = 2
  /\ \E t, u, w \in Team :
       /\ wpc[t] = "done" /\ wpc[u] = "crit" /\ wpc[w] = "barrier"
       /\ \E b \in 0 .. 1 : hist[b] >= 1 /\ hist[b] = locals[t][b]
       /\ \E b \in 0 .. 1 : locals[u][b] >= 1

\* C20 (disjoint generation writes): no index of the dataset is stored into
\* more than once in a repetition; the one store into index i is made by the
\* worker whose range contains i and leaves a value of [min, max] there; when
\* the generation phase has ended every index of [0, N) has been stored into
\* exactly once.
C20_DisjointWrites ==
  /\ \A i \in DOMAIN written :
       /\ Len(written[i]) <= 1
       /\ Len(written[i]) = 1 =>
            LET t == written[i][1]
            IN /\ t \in Team
               /\ RangeStart(t) <= i /\ i < RangeEnd(t)
               /\ a.minv <= data[i] /\ data[i] <= a.maxv
  /\ pc \in AfterGen =>
       /\ DOMAIN written = 0 .. (a.N - 1)
       /\ \A i \in 0 .. (a.N - 1) : Len(written[i]) = 1

\* C20 witness: 4 elements generated by 3 workers of the std::thread program
\* in the second repetition, two by worker 0 and two by worker 1, both values
\* of the range present
C20_Witness ==
  /\ backend = "threads" /\ T = 3 /\ a.N = 4 /\ pc = "dispatch" /\ r = 1
  /\ written = [i \in 0 .. 3 |-> IF i < 2 THEN << 0 >> ELSE << 1 >>]
  /\ \E i, j \in 0 .. 3 : data[i] = 0 /\ data[j] = 1

\* positions of the main thread during the histogram stage: allocation of
\* the variant's arrays, the counting workers, the reduction and sum_hist
HistStage == {"dispatch"} \cup CountPhase \cup {"sum"}

\* C21 (counting leaves the dataset unchanged): a step taken between the end
\* of generation and the output of the record, by a counting worker or by the
\* main thread, changes no element of the dataset; the histogram changes only
\* in the histogram stage, and is discarded when the record has been written.
C21_CountingFrame ==
  [][ /\ (pc \in AfterGen /\ pc' \in AfterGen) => data' = data
      /\ hist' # hist =>
           \/ pc \in HistStage
           \/ pc = "emit" /\ DOMAIN hist' = {} ]_vars

\* C21 witness: three workers have counted a dataset whose values are all
\* min = 1; the elements still hold 1 when the record is about to be written
C21_Witness ==
  /\ pc = "emit" /\ a.minv = 1 /\ a.N >= 3 /\ TeamSize = 3 /\ r = 1
  /\ hist[0] = a.N /\ \A i \in 0 .. (a.N - 1) : data[i] = 1

\* the run has ended normally after writing its rep records
Ended == pc = "exit" /\ status = 0 /\ Len(out) = a.rep

\* C22 (termination): a run with a supported variant, scheduled so that it
\* is not stopped while some thread can take a step, ends with status 0 after
\* writing its rep records; hence every worker terminates, every join and
\* barrier is passed, and no worker of the mutex variant waits for ever for
\* a bin's lock.
C22_Termination == <>Ended

\* C22 witness: the mutex variant has ended a run of two repetitions of 4
\* elements over 3 workers
C22_Witness ==
  /\ Ended /\ a.variant = "mutex" /\ a.rep = 2 /\ a.N = 4 /\ TeamSize = 3
  /\ bins = 2 /\ nspawn = 12

\* C23 (bin index safety): whenever a counting worker of either program is
\* in its loop, the element it reads has been stored by a generation worker,
\* lies in [min, max], and its index data[i] - min lies in 0 .. bins-1 and
\* is an index of every array the variant accesses with it: the worker's
\* local array, the histogram, the locks.
C23_BinIndexSafety ==
  \A t \in Workers :
    AtLock(t) =>
      /\ wi[t] \in DOMAIN data
      /\ Len(written[wi[t]]) = 1
      /\ a.minv <= data[wi[t]] /\ data[wi[t]] <= a.maxv
      /\ 0 <= Idx(t) /\ Idx(t) <= bins - 1
      /\ a.variant = "private" => Idx(t) \in DOMAIN locals[t]
      /\ a.variant \in {"atomic", "mutex"} => Idx(t) \in DOMAIN hist
      /\ a.variant = "mutex" => Idx(t) \in DOMAIN bin_mtx

\* C23 witness: with min = 1 a worker of the mutex variant holds the lock of
\* bin 0 for an element of value 1, while another worker is in its loop
C23_Witness ==
  /\ a.minv = 1 /\ a.variant = "mutex" /\ TeamSize >= 2
  /\ \E t, u \in Workers :
       /\ t # u /\ wpc[t] = "loaded" /\ wpc[u] = "cnt_loop"
       /\ data[wi[t]] = 1 /\ Idx(t) = 0 /\ Idx(u) = 0

\* ---- the sequential baseline (hist_seq), one repetition as a function of
\* ---- its command line and of the repetition index

\* hist_seq: the command line after the exchange of an inverted range
SeqArgs(args) == SwapRange(args)

\* hist_seq: const int bins = a.maxv - a.minv + 1
SeqBins(args) == SeqArgs(args).maxv - SeqArgs(args).minv + 1

\* a slip: the repetition index does not enter the seed
SeqSeed_NoRep(seed, rr) == seed

\* hist_seq: mt19937_64 rng(a.seed + (unsigned)r * 17u)
SeqSeed(seed, rr) == seed + rr * SeedRepStride

\* hist_seq: for (i = 0; i < a.N; ++i) data[i] = dist(rng), from element i
\* on; the one generator has made i draws when element i is stored
RECURSIVE SeqGen(_, _, _, _)
SeqGen(d, i, args, rr) ==
  IF i < args.N
    THEN SeqGen([d EXCEPT ![i] = Draw(SeqSeed(args.seed, rr), i,
                                      args.minv, args.maxv)],
                i + 1, args, rr)
    ELSE d

\* hist_seq: for (i = 0; i < a.N; ++i) ++hist[data[i] - a.minv], from
\* element i on
RECURSIVE SeqCount(_, _, _, _)
SeqCount(h, d, i, args) ==
  IF i < args.N
    THEN SeqCount([h EXCEPT ![d[i] - args.minv] = @ + 1], d, i + 1, args)
    ELSE h

\* hist_seq: vector<int> data(a.N) after the generation loop of repetition rr
SeqData(args, rr) == SeqGen(Zeros(args.N), 0, SeqArgs(args), rr)

\* hist_seq: vector<uint64_t> hist(bins, 0) after the counting loop of
\* repetition rr
SeqHist(args, rr) ==
  SeqCount(Zeros(SeqBins(args)), SeqData(args, rr), 0, SeqArgs(args))

\* the thread program runs one worker
OneWorker == backend = "threads" /\ pc \notin {"setup"} /\ T = 1

\* C24 (one worker against the sequential baseline): when the thread program
\* runs with T = 1, in every variant and every repetition r, the dataset it
\* holds once generation has been joined is the dataset the sequential
\* baseline generates for the same command line and r, and the histogram it
\* reports is the baseline's histogram; the one worker's seed is the
\* baseline's seed and its range is [0, N).
C24_SingleWorkerBaseline ==
  OneWorker =>
    /\ \A i \in 1 .. Len(log) :
         /\ log[i].data = SeqData(argv, i - 1)
         /\ log[i].hist = SeqHist(argv, i - 1)
    /\ pc \in AfterGen => data = SeqData(argv, r)
    /\ pc = "emit" => hist = SeqHist(argv, r)
    /\ wpc[0] = "gen_loop" =>
         /\ rng[0].s = SeqSeed(argv.seed, r)
         /\ rng[0].j = wi[0]
         /\ wend[0] = a.N
    /\ pc \in {"gen_join", "cnt_join"} =>
         RangeStart(0) = 0 /\ RangeEnd(0) = a.N

\* C24 witness: the second repetition of a one-worker run of the mutex
\* variant, given an inverted range, has counted 4 elements into two bins as
\* the baseline does
C24_Witness ==
  /\ OneWorker /\ pc = "emit" /\ r = 1 /\ a.variant = "mutex" /\ a.N = 4
  /\ argv.minv = 1 /\ argv.maxv = 0 /\ bins = 2
  /\ hist[0] >= 1 /\ hist[1] >= 1
  /\ hist = SeqHist(argv, 1) /\ data = SeqData(argv, 1)
  /\ Len(log) = 1 /\ log[1].data # data

====
